---- MODULE Spec2Model ----
(***************************************************************************)
(* A model of the code-based signature scheme: GF(2) matrix algebra        *)
(* (src/src/matrix.c), the verifier (src/src/verifier.c), the parameter    *)
(* layer (src/src/params.c) and the keygen / sign / verify commands        *)
(* (src/src/main.c).  Matrices are records [r, c, e] as FLINT's nmod_mat_t *)
(* (fields r and c, entries e[i][j]), indexed from 0 as in the C code.     *)
(***************************************************************************)
EXTENDS Integers, Sequences, FiniteSets, TLC

VARIABLES
    pc,      \* position of the running scenario
    orig,    \* the inputs the scenario started from
    st,      \* multiply_matrices_gf2: the operands A, B and the result C
    res,     \* results of the calls made so far
    ms,      \* make_systematic: its frame (n, k, H, i, count)
    rr,      \* rref: its frame (num_rows, num_cols, H, current_col, current_row)
    params,  \* params.txt and the process-wide records C_A, C1, C2
    cache,   \* the matrix cache directory: matrix files and seed files
    keys,    \* what the last keygen run held when it returned
    out      \* the output directory: hash.txt, signature.txt, public_key.txt, the log

Null == "null"

vars == <<pc, orig, st, res, ms, rr, params, cache, keys, out>>

matVars == <<st, ms, rr>>

cmdVars == <<params, cache, keys, out>>

\* the variables a scenario of matrix.c alone leaves unused
NoCommand == params = Null /\ cache = Null /\ keys = Null /\ out = Null

-----------------------------------------------------------------------------
(* Bounds of the model *)

\* largest number of entries of A plus entries of B in a multiplication
MaxMulCells == 8

\* largest number of entries of the matrix given to make_systematic or rref
MaxSysCells == 12

-----------------------------------------------------------------------------
(* GF(2) values and matrices *)

\* MOD of constants.h: entries are residues modulo 2
MOD == 2

Bit == 0..(MOD - 1)

\* C's ^ on two residues modulo 2
BitXor(a, b) == (a + b) % MOD

\* C's & on two residues modulo 2
BitAnd(a, b) == a * b

\* nmod_mat_init(m, r, c, MOD) followed by entry writes: every r x c matrix
Mats(r, c) ==
    { [r |-> r, c |-> c, e |-> f] : f \in [0..(r - 1) -> [0..(c - 1) -> Bit]] }

\* an r x c matrix with every entry v
Fill(r, c, v) ==
    [r |-> r, c |-> c, e |-> [i \in 0..(r - 1) |-> [j \in 0..(c - 1) |-> v]]]

\* nmod_mat_init: the zero matrix
ZeroMat(r, c) == Fill(r, c, 0)

\* the identity matrix of size n
IdentMat(n) ==
    [r |-> n, c |-> n,
     e |-> [i \in 0..(n - 1) |-> [j \in 0..(n - 1) |-> IF i = j THEN 1 ELSE 0]]]

\* nmod_mat_get_entry(h[m], i, j) on the store h
GetEntry(h, m, i, j) == h[m].e[i][j]

\* nmod_mat_set_entry(h[m], i, j, v) on the store h
SetEntry(h, m, i, j, v) == [h EXCEPT ![m].e[i][j] = v]

-----------------------------------------------------------------------------
(* transpose_matrix, matrix.c:57-63 *)

transpose_matrix(rows, cols, matrix) ==
    [r |-> cols, c |-> rows,
     e |-> [j \in 0..(cols - 1) |-> [i \in 0..(rows - 1) |-> matrix.e[i][j]]]]

-----------------------------------------------------------------------------
(* multiply_matrices_gf2, matrix.c:81-93: the store h holds the matrices   *)
(* A, B and C; every write goes through nmod_mat_set_entry on C.           *)

\* the k loop with XOR replaced by OR (a plausible slip)
RECURSIVE MulLoopK_or(_, _, _, _)
MulLoopK_or(h, i, j, k) ==
    IF k >= h.B.r THEN h
    ELSE LET temp == GetEntry(h, "C", i, j)
             prod == BitAnd(GetEntry(h, "A", i, k), GetEntry(h, "B", k, j))
             t2   == IF temp + prod > 0 THEN 1 ELSE 0
         IN  MulLoopK_or(SetEntry(h, "C", i, j, t2), i, j, k + 1)

\* the k loop stopping one short of B->r (a plausible slip)
RECURSIVE MulLoopK_short(_, _, _, _)
MulLoopK_short(h, i, j, k) ==
    IF k >= h.B.r - 1 THEN h
    ELSE LET temp == GetEntry(h, "C", i, j)
             t2   == BitXor(temp, BitAnd(GetEntry(h, "A", i, k), GetEntry(h, "B", k, j)))
         IN  MulLoopK_short(SetEntry(h, "C", i, j, t2), i, j, k + 1)

\* lines 86-90: for k < B->r: temp = C[i][j]; temp ^= A[i][k] & B[k][j]; C[i][j] = temp
RECURSIVE MulLoopK(_, _, _, _)
MulLoopK(h, i, j, k) ==
    IF k >= h.B.r THEN h
    ELSE LET temp == GetEntry(h, "C", i, j)
             t2   == BitXor(temp, BitAnd(GetEntry(h, "A", i, k), GetEntry(h, "B", k, j)))
         IN  MulLoopK(SetEntry(h, "C", i, j, t2), i, j, k + 1)

\* lines 83-91: for j < B->c: C[i][j] = 0; the k loop
RECURSIVE MulLoopJ(_, _, _)
MulLoopJ(h, i, j) ==
    IF j >= h.B.c THEN h
    ELSE MulLoopJ(MulLoopK(SetEntry(h, "C", i, j, 0), i, j, 0), i, j + 1)

\* lines 82-92: for i < A->r
RECURSIVE MulLoopI(_, _)
MulLoopI(h, i) ==
    IF i >= h.A.r THEN h
    ELSE MulLoopI(MulLoopJ(h, i, 0), i + 1)

\* the call multiply_matrices_gf2(C, A, B): the store after it returns
multiply_matrices_gf2(C, A, B) == MulLoopI([A |-> A, B |-> B, C |-> C], 0)

-----------------------------------------------------------------------------
(* swap_columns and make_systematic, matrix.c:111-157 *)

\* swap_columns without the temporary (a plausible slip: column second is
\* written from column first after first was overwritten)
swap_columns_copy(n, k, first, second, H) ==
    [H EXCEPT !.e = [i \in 0..(H.r - 1) |->
        IF i < n - k
        THEN [j \in 0..(H.c - 1) |->
                IF j = first THEN H.e[i][second] ELSE H.e[i][j]]
        ELSE H.e[i]]]

\* lines 111-117: exchange columns first and second in rows 0 .. n-k-1
swap_columns(n, k, first, second, H) ==
    [H EXCEPT !.e = [i \in 0..(H.r - 1) |->
        IF i < n - k
        THEN [j \in 0..(H.c - 1) |->
                IF j = first THEN H.e[i][second]
                ELSE IF j = second THEN H.e[i][first]
                ELSE H.e[i][j]]
        ELSE H.e[i]]]

\* lines 140-147: sum and position after the scan of rows 0 .. r-1 of column i
RECURSIVE ColumnScan(_, _, _, _, _)
ColumnScan(H, r, i, j, acc) ==
    IF j >= r THEN acc
    ELSE ColumnScan(H, r, i, j + 1,
                    IF H.e[j][i] = 1
                    THEN [sum |-> acc.sum + 1, position |-> j]
                    ELSE acc)

\* the frame of a call make_systematic(n, k, H) on entry (lines 136-137)
SysEnter(n, k, H) ==
    [n |-> n, k |-> k, H |-> H, i |-> 0, count |-> 0, done |-> (n = 0)]

\* lines 139-156: one pass of the column loop, and the loop's exit
SysIteration(f) ==
    LET r    == f.n - f.k
        scan == ColumnScan(f.H, r, f.i, 0, [sum |-> 0, position |-> 0])
        hit  == scan.sum = 1
        H2   == IF hit THEN swap_columns(f.n, f.k, f.i, f.k + scan.position, f.H)
                ELSE f.H
        c2   == IF hit THEN f.count + 1 ELSE f.count
    IN  [f EXCEPT !.H = H2, !.count = c2, !.i = f.i + 1,
                  !.done = (c2 = r \/ f.i + 1 >= f.n)]

RECURSIVE SysRun(_)
SysRun(f) == IF f.done THEN f ELSE SysRun(SysIteration(f))

\* the matrix H after make_systematic(n, k, H) returns
make_systematic(n, k, H) == SysRun(SysEnter(n, k, H)).H

-----------------------------------------------------------------------------
(* rref, matrix.c:170-215 *)

\* the frame of a call rref(num_rows, num_cols, H) on entry (lines 171-173)
RrefEnter(num_rows, num_cols, H) ==
    [num_rows |-> num_rows, num_cols |-> num_cols, H |-> H,
     current_col |-> num_cols - num_rows + 1, current_row |-> 1,
     status |-> IF num_cols - num_rows + 1 <= num_cols THEN "running" ELSE "done"]

\* lines 179-183: exchange rows a and b
SwapRows(H, a, b) ==
    [H EXCEPT !.e = [i \in 0..(H.r - 1) |->
        IF i = a THEN H.e[b] ELSE IF i = b THEN H.e[a] ELSE H.e[i]]]

\* lines 174-187: bring a row with a nonzero entry in the column up to the pivot row
PivotSearch(f) ==
    LET p    == f.current_row - 1
        col  == f.current_col - 1
        rows == { s \in f.current_row..(f.num_rows - 1) : f.H.e[s][col] # 0 }
    IN  IF f.H.e[p][col] = 0 /\ rows # {}
        THEN SwapRows(f.H, p, CHOOSE s \in rows : \A s2 \in rows : s <= s2)
        ELSE f.H

\* the row update with |= where the code has ^= (a plausible slip)
XorRow_or(H, i, p) ==
    [j \in 0..(H.c - 1) |-> IF H.e[i][j] + H.e[p][j] > 0 THEN 1 ELSE 0]

\* row i of H with the pivot row p XORed into it (lines 198-200, 207-209)
XorRow(H, i, p) == [j \in 0..(H.c - 1) |-> BitXor(H.e[i][j], H.e[p][j])]

\* lines 196-202: forward substitution over the rows below the pivot row
ForwardSubst(H, f) ==
    LET p == f.current_row - 1  col == f.current_col - 1
    IN  [H EXCEPT !.e = [i \in 0..(H.r - 1) |->
            IF i >= f.current_row /\ i < f.num_rows /\ H.e[i][col] = 1
            THEN XorRow(H, i, p) ELSE H.e[i]]]

\* back substitution left out (a plausible slip)
BackSubst_none(H, f) == H

\* lines 205-211: back substitution over the rows above the pivot row
BackSubst(H, f) ==
    LET p == f.current_row - 1  col == f.current_col - 1
    IN  [H EXCEPT !.e = [i \in 0..(H.r - 1) |->
            IF i < f.current_row - 1 /\ H.e[i][col] = 1
            THEN XorRow(H, i, p) ELSE H.e[i]]]

\* the column loop going on to the next column where line 192 returns (a
\* plausible slip: continue for return)
RrefIteration_skip(f) ==
    LET H1 == PivotSearch(f)
        singular == H1.e[f.current_row - 1][f.current_col - 1] = 0
    IN  [f EXCEPT !.H = IF singular THEN H1 ELSE BackSubst(ForwardSubst(H1, f), f),
                  !.current_row = IF singular THEN f.current_row ELSE f.current_row + 1,
                  !.current_col = f.current_col + 1,
                  !.status = IF f.current_col + 1 <= f.num_cols
                             THEN "running" ELSE "done"]

\* lines 173-214: one pass of the column loop, and the loop's exits
RrefIteration(f) ==
    LET H1 == PivotSearch(f)
    IN  IF H1.e[f.current_row - 1][f.current_col - 1] = 0
        THEN [f EXCEPT !.H = H1, !.status = "singular"]
        ELSE [f EXCEPT !.H = BackSubst(ForwardSubst(H1, f), f),
                       !.current_row = f.current_row + 1,
                       !.current_col = f.current_col + 1,
                       !.status = IF f.current_col + 1 <= f.num_cols
                                  THEN "running" ELSE "done"]

-----------------------------------------------------------------------------
(* Scenario Mul: one multiplication and the products the identities need   *)

\* shapes (r, m, c) of A (r x m) and B (m x c) within MaxMulCells
MulShapes ==
    { s \in (1..MaxMulCells) \X (1..MaxMulCells) \X (1..MaxMulCells) :
        s[1] * s[2] + s[2] * s[3] <= MaxMulCells }

InitMul ==
    /\ pc = "mul_start"
    /\ \E s \in MulShapes : \E A \in Mats(s[1], s[2]) : \E B \in Mats(s[2], s[3]) :
       \E v \in Bit :
          /\ st = [A |-> A, B |-> B, C |-> Fill(s[1], s[3], v)]
          /\ orig = [A |-> A, B |-> B, fill |-> v]
    /\ res = Null
    /\ ms = Null
    /\ rr = Null
    /\ NoCommand

\* multiply_matrices_gf2(C, A, B) on the three distinct matrices of the store
Multiply ==
    /\ pc = "mul_start"
    /\ st' = multiply_matrices_gf2(st.C, st.A, st.B)
    /\ pc' = "mul_done"
    /\ UNCHANGED <<orig, res, ms, rr, cmdVars>>

\* transpose_matrix on the product, and the product of the transposes
TransposeProducts ==
    /\ pc = "mul_done"
    /\ LET At == transpose_matrix(st.A.r, st.A.c, st.A)
           Bt == transpose_matrix(st.B.r, st.B.c, st.B)
       IN  res' = [ABt  |-> transpose_matrix(st.C.r, st.C.c, st.C),
                   BtAt |-> multiply_matrices_gf2(
                                Fill(Bt.r, At.c, orig.fill), Bt, At).C]
    /\ pc' = "mul_transposed"
    /\ UNCHANGED <<orig, st, ms, rr, cmdVars>>

\* A times the zero matrix and A times the identity
MultiplyUnits ==
    /\ pc = "mul_transposed"
    /\ res' = [AZ |-> multiply_matrices_gf2(
                          Fill(st.A.r, st.B.c, orig.fill), st.A,
                          ZeroMat(st.A.c, st.B.c)).C,
               AI |-> multiply_matrices_gf2(
                          Fill(st.A.r, st.A.c, orig.fill), st.A,
                          IdentMat(st.A.c)).C,
               ABt |-> res.ABt, BtAt |-> res.BtAt]
    /\ pc' = "mul_units"
    /\ UNCHANGED <<orig, st, ms, rr, cmdVars>>

NextMul == Multiply \/ TransposeProducts \/ MultiplyUnits

SpecMul == InitMul /\ [][NextMul]_vars

-----------------------------------------------------------------------------
(* Claims about multiplication *)

\* the sum over k of a[i][k] * b[k][j], reduced modulo 2
RECURSIVE DotSum(_, _, _, _, _)
DotSum(a, b, i, j, k) ==
    IF k = 0 THEN 0 ELSE a.e[i][k - 1] * b.e[k - 1][j] + DotSum(a, b, i, j, k - 1)

Gf2Product(a, b) ==
    [r |-> a.r, c |-> b.c,
     e |-> [i \in 0..(a.r - 1) |-> [j \in 0..(b.c - 1) |->
              DotSum(a, b, i, j, a.c) % 2]]]

\* C7: after multiply_matrices_gf2(C, A, B), with C a matrix other than A and
\* B, every C[i][j] is the XOR over k of A[i][k] AND B[k][j], and A and B hold
\* what they held before the call.
C7_MultiplyEntries ==
    pc = "mul_done" =>
        /\ st.C = Gf2Product(orig.A, orig.B)
        /\ st.A = orig.A
        /\ st.B = orig.B

\* C7 witness: a finished multiplication whose inner dimension is at least 2,
\* whose result has a 1 and a 0, and whose C started out as all ones
C7_Witness ==
    /\ pc = "mul_done"
    /\ orig.A.c >= 2
    /\ orig.fill = 1
    /\ \E i \in 0..(st.C.r - 1) : \E j \in 0..(st.C.c - 1) : st.C.e[i][j] = 1
    /\ \E i \in 0..(st.C.r - 1) : \E j \in 0..(st.C.c - 1) : st.C.e[i][j] = 0
    /\ \E i \in 0..(st.A.r - 1) : \E j \in 0..(st.B.c - 1) :
          Cardinality({k \in 0..(st.A.c - 1) :
                          st.A.e[i][k] = 1 /\ st.B.e[k][j] = 1}) = 2

\* C8: transpose(A*B) = transpose(B)*transpose(A), A times the zero matrix is
\* the zero matrix, and A times the identity is A.
C8_MultiplyIdentities ==
    /\ pc \in {"mul_transposed", "mul_units"} => res.ABt = res.BtAt
    /\ pc = "mul_units" =>
          /\ res.AZ = ZeroMat(orig.A.r, orig.B.c)
          /\ res.AI = orig.A

\* C8 witness: the identities were evaluated on non-square, nonzero A and B
\* with a nonzero product
C8_Witness ==
    /\ pc = "mul_units"
    /\ orig.A.r # orig.A.c
    /\ orig.B.r # orig.B.c
    /\ res.ABt # ZeroMat(orig.B.c, orig.A.r)
    /\ res.AI # ZeroMat(orig.A.r, orig.A.c)
    /\ orig.fill = 1

-----------------------------------------------------------------------------
(* Scenario Sys: one call of make_systematic, one pass of its loop at a time *)

\* the (n, k) with n > k >= 1 whose (n-k) x n matrix has at most MaxSysCells entries
SysShapes ==
    { s \in (1..(MaxSysCells + 1)) \X (1..MaxSysCells) :
        s[1] > s[2] /\ (s[1] - s[2]) * s[1] <= MaxSysCells }

InitSys ==
    /\ pc = "sys_run"
    /\ \E s \in SysShapes : \E H \in Mats(s[1] - s[2], s[1]) :
          /\ orig = [n |-> s[1], k |-> s[2], H |-> H]
          /\ ms = SysEnter(s[1], s[2], H)
    /\ st = Null
    /\ res = Null
    /\ rr = Null
    /\ NoCommand

SysStep ==
    /\ pc = "sys_run"
    /\ ~ms.done
    /\ ms' = SysIteration(ms)
    /\ UNCHANGED <<pc, orig, st, res, rr, cmdVars>>

SysReturn ==
    /\ pc = "sys_run"
    /\ ms.done
    /\ pc' = "sys_done"
    /\ UNCHANGED <<orig, st, res, ms, rr, cmdVars>>

NextSys == SysStep \/ SysReturn

SpecSys == InitSys /\ [][NextSys]_vars

\* column j of H, restricted to its first r rows
Column(H, r, j) == [i \in 0..(r - 1) |-> H.e[i][j]]

\* the unit vector e_j of length r
UnitVec(r, j) == [i \in 0..(r - 1) |-> IF i = j THEN 1 ELSE 0]

\* the last r columns of H are the identity of size r
IdentityTail(H, r) ==
    \A j \in 0..(r - 1) : Column(H, r, H.c - r + j) = UnitVec(r, j)

\* C5: whenever make_systematic(n, k, H) returns with its count at r = n - k,
\* the last n - k columns of H are the identity matrix of size n - k.
C5_SystematicForm ==
    (pc = "sys_done" /\ ms.count = ms.n - ms.k) => IdentityTail(ms.H, ms.n - ms.k)

\* the number of columns of H equal, over all rows, to the vector v
ColumnCount(H, v) == Cardinality({ j \in 0..(H.c - 1) : Column(H, H.r, j) = v })

\* C22: at every point of make_systematic(n, k, H) the matrix is a column
\* permutation of the input: every column vector occurs as often as in the
\* input (so no row was combined with another), and at most n columns have
\* been scanned when the call returns
C22_OnlyColumnSwaps ==
    pc \in {"sys_run", "sys_done"} =>
        /\ ms.H.r = orig.H.r /\ ms.H.c = orig.H.c
        /\ \A j \in 0..(orig.H.c - 1) :
              ColumnCount(ms.H, Column(orig.H, orig.H.r, j))
                = ColumnCount(orig.H, Column(orig.H, orig.H.r, j))
        /\ ms.i <= ms.n

\* C22 witness: a call that scanned all n columns, swapped at least twice and
\* returned a matrix other than its input
C22_Witness ==
    /\ pc = "sys_done"
    /\ ms.i = ms.n
    /\ ms.count >= 2
    /\ ms.H # orig.H
    /\ ms.n - ms.k >= 2

\* H has, for every j < r, a column equal to the unit vector e_j
HasUnitColumns(H, r) ==
    \A j \in 0..(r - 1) : \E c \in 0..(H.c - 1) : Column(H, r, c) = UnitVec(r, j)

\* C23: for every (n-k) x n matrix that has, for each j < r = n - k, a column
\* equal to e_j, make_systematic leaves column k + j equal to e_j for every j
C23_GreedySufficient ==
    (pc = "sys_done" /\ HasUnitColumns(orig.H, orig.n - orig.k))
        => IdentityTail(ms.H, ms.n - ms.k)

-----------------------------------------------------------------------------
(* Scenario Rref: one call of rref, one target column at a time *)

\* the (num_rows, num_cols) with num_rows <= num_cols within MaxSysCells
RrefShapes ==
    { s \in (1..MaxSysCells) \X (1..MaxSysCells) :
        s[1] <= s[2] /\ s[1] * s[2] <= MaxSysCells }

InitRref ==
    /\ pc = "rref_run"
    /\ \E s \in RrefShapes : \E H \in Mats(s[1], s[2]) :
          /\ orig = [num_rows |-> s[1], num_cols |-> s[2], H |-> H]
          /\ rr = RrefEnter(s[1], s[2], H)
    /\ st = Null
    /\ res = Null
    /\ ms = Null
    /\ NoCommand

RrefStep ==
    /\ pc = "rref_run"
    /\ rr.status = "running"
    /\ rr' = RrefIteration(rr)
    /\ UNCHANGED <<pc, orig, st, res, ms, cmdVars>>

RrefReturn ==
    /\ pc = "rref_run"
    /\ rr.status # "running"
    /\ pc' = "rref_done"
    /\ UNCHANGED <<orig, st, res, ms, rr, cmdVars>>

NextRref == RrefStep \/ RrefReturn

SpecRref == InitRref /\ [][NextRref]_vars

\* the XOR of the rows of H named by S, over the columns from c0 on
RECURSIVE RowSum(_, _, _)
RowSum(H, S, j) ==
    IF S = {} THEN 0
    ELSE LET i == CHOOSE x \in S : TRUE
         IN  (H.e[i][j] + RowSum(H, S \ {i}, j)) % 2

\* the rightmost r x r block of H is non-singular over GF(2): no nonempty set
\* of its rows XORs to zero
NonSingularTail(H, r) ==
    \A S \in (SUBSET (0..(r - 1))) \ {{}} :
        \E j \in (H.c - r)..(H.c - 1) : RowSum(H, S, j) = 1

\* C6: for an r x c binary matrix with r <= c whose rightmost r x r block is
\* non-singular, rref leaves the rightmost r columns equal to the identity.
C6_RrefPivots ==
    (pc = "rref_done" /\ NonSingularTail(orig.H, orig.num_rows))
        => IdentityTail(rr.H, rr.num_rows)

\* C6 witness: rref returned on a non-singular input of three rows that needed
\* a row exchange and whose rightmost block was not the identity already
C6_Witness ==
    /\ pc = "rref_done"
    /\ orig.num_rows = 3
    /\ orig.num_cols > 3
    /\ NonSingularTail(orig.H, orig.num_rows)
    /\ orig.H.e[0][orig.num_cols - 3] = 0
    /\ ~IdentityTail(orig.H, 3)
    /\ orig.H # rr.H

\* the entries of column col of H from row p down are all zero
NoPivot(H, p, col) == \A s \in p..(H.r - 1) : H.e[s][col] = 0

\* the target columns before current_col are the unit columns e_0, e_1, ...
TargetsDone(f) ==
    \A t \in 0..(f.current_row - 2) :
        Column(f.H, f.num_rows, f.num_cols - f.num_rows + t) = UnitVec(f.num_rows, t)

\* C24: when rref reaches a target column whose pivot position is zero with
\* no 1 below it, that pass stops the reduction with the matrix as it was,
\* the target columns processed before are e_0, e_1, ... in order, and the
\* caller is handed nothing
C24_SingularStops ==
    [][(/\ pc = "rref_run"
        /\ rr.status = "running"
        /\ NoPivot(rr.H, rr.current_row - 1, rr.current_col - 1))
       => (/\ rr'.status = "singular"
           /\ rr'.H = rr.H
           /\ rr'.current_row = rr.current_row
           /\ TargetsDone(rr')
           /\ res' = Null)]_vars

\* C24 witness: rref returned on a singular matrix of three rows after it had
\* processed one target column and changed the matrix
C24_Witness ==
    /\ pc = "rref_done"
    /\ rr.status = "singular"
    /\ rr.num_rows = 3
    /\ rr.current_row = 2
    /\ rr.H # orig.H

\* the XOR of the rows of H named by S, as a vector over all columns
RowCombination(H, S) == [j \in 0..(H.c - 1) |-> RowSum(H, S, j)]

\* the GF(2) row space of H
RowSpace(H) == { RowCombination(H, S) : S \in SUBSET (0..(H.r - 1)) }

\* C30: at every point of rref, on singular and non-singular inputs alike,
\* the row space of the matrix is the row space of the input, every entry is
\* 0 or 1, and at most num_rows target columns have been processed
C30_RowSpacePreserved ==
    pc \in {"rref_run", "rref_done"} =>
        /\ RowSpace(rr.H) = RowSpace(orig.H)
        /\ \A i \in 0..(rr.H.r - 1) : \A j \in 0..(rr.H.c - 1) : rr.H.e[i][j] \in {0, 1}
        /\ rr.current_row - 1 <= rr.num_rows
        /\ rr.current_col <= rr.num_cols + 1

\* C30 witness: rref returned on a singular matrix of three rows after two
\* target columns, with rows exchanged and XORed on the way
C30_Witness ==
    /\ pc = "rref_done"
    /\ rr.status = "singular"
    /\ rr.num_rows = 3
    /\ rr.current_row = 3
    /\ rr.H # orig.H
    /\ \A i \in 0..2 : rr.H.e[i] # orig.H.e[0]

-----------------------------------------------------------------------------
(* The parameter layer, params.c *)

\* binary_entropy and the conversion to uint32_t of params.c:214, as
\* h->n * (1 - binary_entropy((double) h->d / h->n)) truncated: the entropy is
\* 0 for a ratio of 1 or more and 1 for a ratio of one half; the other values
\* are those of the double computation
OuterK(n, d) ==
    IF d >= n THEN n
    ELSE IF 2 * d = n THEN 0
    ELSE CASE <<n, d>> = <<14, 11>> -> 3
           [] <<n, d>> = <<30, 7>>  -> 6
           [] <<n, d>> = <<30, 11>> -> 1
           [] <<n, d>> = <<62, 7>>  -> 30
           [] <<n, d>> = <<62, 11>> -> 20
           [] <<n, d>> = <<62, 15>> -> 12

\* lines 150-153: the triples get_param_input lets through
ValidEntry(e) == ~(e.n <= e.k \/ e.n <= e.d)

\* the BCH branch deriving the outer code as the free branch does (a plausible
\* slip: lines 235-237 copied)
BchParams_sum(m, t) ==
    LET n == 2^m - 1
        d == 2 * t + 1
        k == m * t
        g == [n |-> n, k |-> k, d |-> d]
    IN  [C_A |-> [n |-> n + n, k |-> k, d |-> d + d], C1 |-> g, C2 |-> g]

\* lines 197-214: the BCH branch, from the entered m and t
BchParams(m, t) ==
    LET n  == 2^m - 1
        d  == 2 * t + 1
        k  == m * t
        g  == [n |-> n, k |-> k, d |-> d]
        hn == n + n
        hd == d + d + 1
    IN  [C_A |-> [n |-> hn, k |-> OuterK(hn, hd), d |-> hd], C1 |-> g, C2 |-> g]

\* the free branch without the coercion of g2->k (a plausible slip: lines
\* 225-228 and 231 left out)
FreeParams_nocoerce(g1, g2) ==
    [C_A |-> [n |-> g1.n + g2.n, k |-> g1.k, d |-> g1.d + g2.d],
     C1 |-> g1, C2 |-> g2]

\* lines 215-238: the free branch, from the triples entered (or drawn) for G1 and G2
FreeParams(g1, g2) ==
    LET g2c == [g2 EXCEPT !.k = g1.k]
    IN  [C_A |-> [n |-> g1.n + g2c.n, k |-> g1.k, d |-> g1.d + g2c.d],
         C1 |-> g1, C2 |-> g2c]

\* lines 178-261: the records get_user_input leaves in G1, G2, H_A and
\* params.txt; saved is what params.txt held before
get_user_input(inp, saved) ==
    IF inp.path = "saved" THEN saved
    ELSE IF inp.path = "bch" THEN BchParams(inp.m, inp.t)
    ELSE FreeParams(inp.g1, inp.g2)

\* the triples typed in the free branch of the scenarios
FreeEntries ==
    { [n |-> 2, k |-> 1, d |-> 1], [n |-> 3, k |-> 2, d |-> 1],
      [n |-> 3, k |-> 1, d |-> 2] }

\* the answers given to the prompts of get_user_input in the scenarios
UserInputs ==
    { [path |-> "bch", m |-> 3, t |-> 1], [path |-> "bch", m |-> 3, t |-> 2] }
    \cup { [path |-> "free", g1 |-> a, g2 |-> b] :
             a \in { e \in FreeEntries : ValidEntry(e) },
             b \in { e \in FreeEntries : ValidEntry(e) } }

-----------------------------------------------------------------------------
(* The seeded matrix generator and the key generator (keygen.h; their      *)
(* definitions are not in the source tree and follow the specification)    *)

\* largest seed value a keygen run draws
MaxSeed == 1

\* largest number of keygen runs of one scenario
MaxRuns == 2

\* bit i of the byte stream a seed expands to
StreamBit(seed, i) ==
    LET w == i \div 12
        b == i % 12
        x == (seed * (2 * w + 1) * 2477 + w) % 4096
    IN  (x \div 2^b) % 2

\* the stream of a seed consumed in row-major order into the shape of M
ExpandSeed(seed, M) ==
    [M EXCEPT !.e = [i \in 0..(M.r - 1) |-> [j \in 0..(M.c - 1) |->
                        StreamBit(seed, i * M.c + j)]]]

\* generate_parity_check_matrix_from_seed: expand, then make_systematic
generate_parity_check_matrix_from_seed(n, k, d, H, seed) ==
    make_systematic(n, k, ExpandSeed(seed, H))

\* create_generator_matrix_from_seed: expand, then make_systematic on the
\* k rows of the generator matrix
create_generator_matrix_from_seed(n, k, d, G, seed) ==
    make_systematic(n, n - k, ExpandSeed(seed, G))

generate_from_seed(prefix, n, k, d, M, seed) ==
    IF prefix = "H" THEN generate_parity_check_matrix_from_seed(n, k, d, M, seed)
    ELSE create_generator_matrix_from_seed(n, k, d, M, seed)

\* generate_matrix_filename, generate_seed_filename: one name per (prefix, n, k, d)
generate_matrix_filename(prefix, n, k, d) == <<prefix, n, k, d>>

EmptyCache == [mat |-> <<>>, seed |-> <<>>]

\* file_exists on a matrix file or a seed file of the cache
file_exists(files, name) == name \in DOMAIN files

\* save_matrix, save_seed: the directory with the file written
save_file(files, name, content) ==
    [x \in (DOMAIN files) \cup {name} |-> IF x = name THEN content ELSE files[x]]

\* the generator never writing a seed file (a plausible slip: save_seed left
\* out after the draw)
get_or_generate_matrix_with_seed_unsaved(c, prefix, n, k, d, matrix, regenerate, use_seed_mode, fresh) ==
    LET name == generate_matrix_filename(prefix, n, k, d)
    IN  IF ~regenerate /\ file_exists(c.mat, name)
        THEN [cache |-> c, matrix |-> c.mat[name], seed |-> Null, drew |-> FALSE]
        ELSE LET have == use_seed_mode /\ file_exists(c.seed, name)
                 seed == IF have THEN c.seed[name] ELSE fresh
                 M    == generate_from_seed(prefix, n, k, d, matrix, seed)
             IN  [cache |-> [mat |-> save_file(c.mat, name, M), seed |-> c.seed],
                  matrix |-> M, seed |-> Null, drew |-> ~have]

\* get_or_generate_matrix_with_seed: the cache afterwards, the matrix handed
\* back and the seed reported; fresh is what the CSPRNG yields if asked
get_or_generate_matrix_with_seed(c, prefix, n, k, d, matrix, regenerate, use_seed_mode, fresh) ==
    LET name == generate_matrix_filename(prefix, n, k, d)
    IN  IF ~regenerate /\ file_exists(c.mat, name)
        THEN [cache |-> c, matrix |-> c.mat[name], seed |-> Null, drew |-> FALSE]
        ELSE IF use_seed_mode
        THEN LET have == file_exists(c.seed, name)
                 seed == IF have THEN c.seed[name] ELSE fresh
                 M    == generate_from_seed(prefix, n, k, d, matrix, seed)
             IN  [cache |-> [mat  |-> save_file(c.mat, name, M),
                             seed |-> IF have THEN c.seed
                                      ELSE save_file(c.seed, name, seed)],
                  matrix |-> M, seed |-> seed, drew |-> ~have]
        ELSE LET M == generate_from_seed(prefix, n, k, d, matrix, fresh)
             IN  [cache |-> [mat |-> save_file(c.mat, name, M), seed |-> c.seed],
                  matrix |-> M, seed |-> Null, drew |-> TRUE]

\* whether the call above asks the CSPRNG for anything
NeedsFresh(c, prefix, n, k, d, regenerate, use_seed_mode) ==
    LET name == generate_matrix_filename(prefix, n, k, d)
    IN  /\ ~(~regenerate /\ file_exists(c.mat, name))
        /\ ~(use_seed_mode /\ file_exists(c.seed, name))

\* what the CSPRNG may yield to one call
FreshFor(c, prefix, n, k, d, regenerate, use_seed_mode) ==
    IF NeedsFresh(c, prefix, n, k, d, regenerate, use_seed_mode)
    THEN 0..MaxSeed ELSE {0}

\* main.c:198-200: the shapes keygen and sign give H_A, G1 and G2
KeyShapes(p) ==
    [H_A |-> ZeroMat(p.C_A.n - p.C_A.k, p.C_A.n),
     G1  |-> ZeroMat(p.C1.k, p.C1.n),
     G2  |-> ZeroMat(p.C2.k, p.C2.n)]

\* keygen hands the two flags over in the wrong order (a plausible slip)
KeygenFlags_swapped(use_seed_mode, regenerate) ==
    [use_seed_mode |-> regenerate, regenerate |-> use_seed_mode]

\* keygen asks generate_keys to regenerate whatever its arguments say (a
\* plausible slip: the flag set where it should be passed on)
KeygenFlags_regen(use_seed_mode, regenerate) ==
    [use_seed_mode |-> use_seed_mode, regenerate |-> TRUE]

\* keygen drops seed mode when it is asked to regenerate (a plausible slip:
\* --regenerate taken to mean fresh randomness)
KeygenFlags_noseed(use_seed_mode, regenerate) ==
    [use_seed_mode |-> use_seed_mode /\ ~regenerate, regenerate |-> regenerate]

\* main.c:204-206: the flags keygen hands to generate_keys
KeygenFlags(use_seed_mode, regenerate) ==
    [use_seed_mode |-> use_seed_mode, regenerate |-> regenerate]

\* generate_keys: H_A, then G1, then G2 through the generator
generate_keys(c, p, use_seed_mode, regenerate, f) ==
    LET sh == KeyShapes(p)
        rH == get_or_generate_matrix_with_seed(c, "H", p.C_A.n, p.C_A.k, p.C_A.d,
                  sh.H_A, regenerate, use_seed_mode, f[1])
        r1 == get_or_generate_matrix_with_seed(rH.cache, "G", p.C1.n, p.C1.k, p.C1.d,
                  sh.G1, regenerate, use_seed_mode, f[2])
        r2 == get_or_generate_matrix_with_seed(r1.cache, "G", p.C2.n, p.C2.k, p.C2.d,
                  sh.G2, regenerate, use_seed_mode, f[3])
    IN  [cache |-> r2.cache,
         keys  |-> [H_A |-> rH.matrix, G1 |-> r1.matrix, G2 |-> r2.matrix],
         drew  |-> rH.drew \/ r1.drew \/ r2.drew]

-----------------------------------------------------------------------------
(* Scenario Keygen: runs of the keygen command on one cache directory.     *)
(* The first run enters parameters; later runs answer yes to the saved     *)
(* parameter file.                                                         *)

\* the answers given to the prompts of the first keygen run
KeygenInputs ==
    { [path |-> "bch", m |-> 2, t |-> 1] }
    \cup { [path |-> "free", g1 |-> a, g2 |-> b] :
             a \in { [n |-> 2, k |-> 1, d |-> 1] },
             b \in { e \in FreeEntries : ValidEntry(e) } }

InitKeygen ==
    /\ pc = "shell"
    /\ params = Null
    /\ cache = EmptyCache
    /\ keys = Null
    /\ out = Null
    /\ res = <<>>
    /\ orig = Null
    /\ st = Null /\ ms = Null /\ rr = Null

\* the triples the CSPRNG may yield to the three calls of one generate_keys
FreshChoices(c, p, u, g) ==
    LET sh == KeyShapes(p)
        afterH(f1) == get_or_generate_matrix_with_seed(c, "H", p.C_A.n, p.C_A.k,
                          p.C_A.d, sh.H_A, g, u, f1).cache
        after1(f1, f2) == get_or_generate_matrix_with_seed(afterH(f1), "G", p.C1.n,
                          p.C1.k, p.C1.d, sh.G1, g, u, f2).cache
    IN  UNION { UNION { { <<f1, f2, f3>> :
                            f3 \in FreshFor(after1(f1, f2), "G", p.C2.n, p.C2.k, p.C2.d, g, u) } :
                        f2 \in FreshFor(afterH(f1), "G", p.C1.n, p.C1.k, p.C1.d, g, u) } :
                f1 \in FreshFor(c, "H", p.C_A.n, p.C_A.k, p.C_A.d, g, u) }

\* the matrix files of the parameters p as the cache c holds them
CachedKeys(c, p) ==
    [H_A |-> c.mat[generate_matrix_filename("H", p.C_A.n, p.C_A.k, p.C_A.d)],
     G1  |-> c.mat[generate_matrix_filename("G", p.C1.n, p.C1.k, p.C1.d)],
     G2  |-> c.mat[generate_matrix_filename("G", p.C2.n, p.C2.k, p.C2.d)]]

\* the names of the three matrix files of the parameters p
KeyNames(p) ==
    { generate_matrix_filename("H", p.C_A.n, p.C_A.k, p.C_A.d),
      generate_matrix_filename("G", p.C1.n, p.C1.k, p.C1.d),
      generate_matrix_filename("G", p.C2.n, p.C2.k, p.C2.d) }

\* the matrix the seed file of name expands to, in the shape main.c:198-200
\* gives a matrix of that name
SeedMatrix(c, name) ==
    generate_from_seed(name[1], name[2], name[3], name[4],
                       IF name[1] = "H" THEN ZeroMat(name[2] - name[3], name[2])
                       ELSE ZeroMat(name[3], name[2]),
                       c.seed[name])

\* the three keys as the seed files of the cache c determine them
SeedKeys(c, p) ==
    [H_A |-> SeedMatrix(c, generate_matrix_filename("H", p.C_A.n, p.C_A.k, p.C_A.d)),
     G1  |-> SeedMatrix(c, generate_matrix_filename("G", p.C1.n, p.C1.k, p.C1.d)),
     G2  |-> SeedMatrix(c, generate_matrix_filename("G", p.C2.n, p.C2.k, p.C2.d))]

\* main.c:175-214: keygen [--use-seed] [--regenerate]
Keygen(use_seed, regen, inp) ==
    /\ pc = "shell"
    /\ Len(res) < MaxRuns
    /\ inp.path = "saved" <=> Len(res) > 0
    /\ LET p  == get_user_input(inp, params)
           fl == KeygenFlags(use_seed, regen)
       IN  \E f \in FreshChoices(cache, p, fl.use_seed_mode, fl.regenerate) :
              \E run \in {generate_keys(cache, p, fl.use_seed_mode, fl.regenerate, f)} :
                  /\ params' = p
                  /\ cache' = run.cache
                  /\ keys' = run.keys
                  /\ res' = Append(res,
                        [use_seed |-> use_seed, regen |-> regen,
                         changed  |-> IF Len(res) = 0 THEN TRUE
                                      ELSE run.keys # keys \/ run.cache # cache,
                         drew     |-> run.drew,
                         pure     |-> IF Len(res) = 0 THEN FALSE
                                      ELSE /\ run.cache = cache
                                           /\ run.keys = CachedKeys(cache, p),
                         seeded   |-> KeyNames(p) \subseteq DOMAIN cache.seed,
                         kept     |-> run.cache.seed = cache.seed,
                         derived  |-> IF KeyNames(p) \subseteq DOMAIN cache.seed
                                      THEN run.keys = SeedKeys(cache, p)
                                      ELSE FALSE])
    /\ UNCHANGED <<pc, orig, out, matVars>>

NextKeygen ==
    \E use_seed \in BOOLEAN : \E regen \in BOOLEAN :
    \E inp \in KeygenInputs \cup {[path |-> "saved"]} :
        Keygen(use_seed, regen, inp)

SpecKeygen == InitKeygen /\ [][NextKeygen]_vars

\* C10: a keygen run with --use-seed and without --regenerate that follows a
\* run with the same flags and parameters leaves H_A, G1, G2 and the cached
\* matrix and seed files as the earlier run left them (changed records, for
\* each run, whether its keys or the cache differ from those it found).
C10_KeygenReproducible ==
    \A i \in 1..(Len(res) - 1) :
        (/\ res[i].use_seed /\ ~res[i].regen
         /\ res[i + 1].use_seed /\ ~res[i + 1].regen)
        => ~res[i + 1].changed

\* C10 witness: two runs with --use-seed and no --regenerate were made under
\* parameters whose inner codes differ, and the keys are not all-zero
C10_Witness ==
    /\ Len(res) >= 2
    /\ res[1].use_seed /\ ~res[1].regen
    /\ res[2].use_seed /\ ~res[2].regen
    /\ params.C1 # params.C2
    /\ keys.G1 # ZeroMat(keys.G1.r, keys.G1.c)
    /\ keys.H_A # ZeroMat(keys.H_A.r, keys.H_A.c)
    /\ DOMAIN cache.seed # {}

\* C11: a keygen run without --regenerate that finds the matrix files of its
\* parameters in the cache (every run after the first, which reuses the saved
\* parameters) gets exactly the cached matrices, draws no seed and no random
\* bits, and leaves every matrix file and seed file as it was, with and
\* without --use-seed (pure records that the run returned the matrices of the
\* files and left the cache as it found it, drew whether it asked the CSPRNG).
C11_CacheHitPureRead ==
    \A i \in 2..Len(res) :
        ~res[i].regen => (res[i].pure /\ ~res[i].drew)

\* C11 witness: after a first run without seeds, a run with --use-seed and
\* without --regenerate found the matrix files, and no seed file exists
C11_Witness ==
    /\ Len(res) >= 2
    /\ ~res[1].use_seed
    /\ res[2].use_seed /\ ~res[2].regen
    /\ DOMAIN cache.seed = {}
    /\ params.C1 # params.C2
    /\ keys.G1 # ZeroMat(keys.G1.r, keys.G1.c)

\* C25: after any sequence of keygen runs, under any mix of --use-seed and
\* --regenerate, every cache key that has both a seed file and a matrix file
\* has the matrix file equal to make_systematic of the expansion of its seed
\* (stated for parameters with n > k and n > d)
C25_SeedMatrixConsistent ==
    (/\ Len(res) > 0
     /\ ValidEntry(params.C_A) /\ ValidEntry(params.C1) /\ ValidEntry(params.C2)) =>
        \A name \in (DOMAIN cache.mat) \cap (DOMAIN cache.seed) :
            cache.mat[name] = SeedMatrix(cache, name)

\* C29: a keygen run with --use-seed and --regenerate that finds the seed
\* files of its three keys leaves every seed file as it was and returns the
\* matrices those seeds expand to (seeded, kept and derived record this for
\* each run)
C29_RegenerateKeepsSeed ==
    \A i \in 1..Len(res) :
        (res[i].use_seed /\ res[i].regen /\ res[i].seeded)
            => (res[i].kept /\ res[i].derived /\ ~res[i].drew)

\* C29 witness: a run with --use-seed created the seeds, and a run with
\* --use-seed --regenerate gave back the same nonzero keys under parameters
\* whose inner codes differ
C29_Witness ==
    /\ Len(res) >= 2
    /\ res[1].use_seed
    /\ res[2].use_seed /\ res[2].regen /\ res[2].seeded
    /\ ~res[2].changed
    /\ params.C1 # params.C2
    /\ keys.G1 # ZeroMat(keys.G1.r, keys.G1.c)
    /\ keys.G2 # ZeroMat(keys.G2.r, keys.G2.c)

\* C15: whenever get_user_input has returned, each of C_A, C1 and C2 has
\* n > k and n > d, so that keygen initialises no matrix from a triple with
\* n <= k or n <= d
C15_CodeParamsInvariant ==
    Len(res) > 0 =>
        /\ ValidEntry(params.C_A)
        /\ ValidEntry(params.C1)
        /\ ValidEntry(params.C2)

-----------------------------------------------------------------------------
(* The verifier, verifier.c.  FLINT's nmod_mat_transpose, nmod_mat_mul and *)
(* nmod_mat_equal are modelled by what they compute on the shapes the      *)
(* verifier gives them: the destination keeps the shape it was initialised *)
(* with and receives the entries.                                          *)

\* nmod_mat_transpose(dest, src), lines 38 and 53
nmod_mat_transpose(dest, src) ==
    [dest EXCEPT !.e = [i \in 0..(dest.r - 1) |-> [j \in 0..(dest.c - 1) |->
                           src.e[j][i]]]]

\* the residue of sum_{t < k} A[i][t] * B[t][j] modulo MOD
RECURSIVE DotMod(_, _, _, _, _)
DotMod(A, B, i, j, k) ==
    IF k = 0 THEN 0
    ELSE (DotMod(A, B, i, j, k - 1) + A.e[i][k - 1] * B.e[k - 1][j]) % MOD

\* nmod_mat_mul(dest, A, B), lines 47 and 57
nmod_mat_mul(dest, A, B) ==
    [dest EXCEPT !.e = [i \in 0..(dest.r - 1) |-> [j \in 0..(dest.c - 1) |->
                           DotMod(A, B, i, j, A.c)]]]

\* nmod_mat_equal(a, b), line 61: same shape and same entries
nmod_mat_equal(a, b) ==
    /\ a.r = b.r
    /\ a.c = b.c
    /\ \A i \in 0..(a.r - 1) : \A j \in 0..(a.c - 1) : a.e[i][j] = b.e[i][j]

\* the number of ones of a row vector
Weight(v) == Cardinality({ j \in 0..(v.c - 1) : v.e[0][j] = 1 })

\* verify_signature that also wants the weight of the signature to be at
\* most C_A.d (a plausible addition: the scheme aims at low-weight signatures)
verify_signature_weight(bin_hash, message_len, sig_len, signature, F, C_A, H_A) ==
    LET hash_T == nmod_mat_transpose(ZeroMat(message_len, 1), bin_hash)
        left   == nmod_mat_mul(ZeroMat(F.r, 1), F, hash_T)
        sig_T  == nmod_mat_transpose(ZeroMat(sig_len, 1), signature)
        right  == nmod_mat_mul(ZeroMat(C_A.n - C_A.k, 1), H_A, sig_T)
    IN  [left |-> left, right |-> right,
         verified |-> nmod_mat_equal(left, right) /\ Weight(signature) <= C_A.d]

\* verify_signature that never fills right (a plausible slip: line 57 left out)
verify_signature_norhs(bin_hash, message_len, sig_len, signature, F, C_A, H_A) ==
    LET hash_T == nmod_mat_transpose(ZeroMat(message_len, 1), bin_hash)
        left   == nmod_mat_mul(ZeroMat(F.r, 1), F, hash_T)
        right  == ZeroMat(C_A.n - C_A.k, 1)
    IN  [left |-> left, right |-> right, verified |-> nmod_mat_equal(left, right)]

\* verify_signature that compares the first entries of left and right only
\* (a plausible slip: an entry test in place of nmod_mat_equal)
verify_signature_first(bin_hash, message_len, sig_len, signature, F, C_A, H_A) ==
    LET hash_T == nmod_mat_transpose(ZeroMat(message_len, 1), bin_hash)
        left   == nmod_mat_mul(ZeroMat(F.r, 1), F, hash_T)
        sig_T  == nmod_mat_transpose(ZeroMat(sig_len, 1), signature)
        right  == nmod_mat_mul(ZeroMat(C_A.n - C_A.k, 1), H_A, sig_T)
    IN  [left |-> left, right |-> right,
         verified |-> left.r = 0 \/ left.e[0][0] = right.e[0][0]]

\* lines 31-67: hash_T, left = F * hash_T, sig_T, right = H_A * sig_T and the
\* line "Verified: True / False" written to the log
verify_signature(bin_hash, message_len, sig_len, signature, F, C_A, H_A) ==
    LET hash_T == nmod_mat_transpose(ZeroMat(message_len, 1), bin_hash)
        left   == nmod_mat_mul(ZeroMat(F.r, 1), F, hash_T)
        sig_T  == nmod_mat_transpose(ZeroMat(sig_len, 1), signature)
        right  == nmod_mat_mul(ZeroMat(C_A.n - C_A.k, 1), H_A, sig_T)
    IN  [left |-> left, right |-> right, verified |-> nmod_mat_equal(left, right)]

-----------------------------------------------------------------------------
(* Scenario Verify: verify_signature on any hash vector, signature, public *)
(* key and parity-check matrix of compatible shapes                        *)

\* largest number of bits of the four inputs of one verify_signature call
MaxVerifyBits == 11

\* (rows of F and H_A, message length, signature length)
VerifyShapes ==
    { s \in (1..MaxVerifyBits) \X (1..MaxVerifyBits) \X (1..MaxVerifyBits) :
        (s[1] + 1) * (s[2] + s[3]) <= MaxVerifyBits }

\* the minimum distances d of C_A tried
VerifyDistances == {1, 2}

InitVerify ==
    /\ pc = "call"
    /\ \E s \in VerifyShapes : \E d \in VerifyDistances :
       \E h \in Mats(1, s[2]) : \E sg \in Mats(1, s[3]) :
       \E f \in Mats(s[1], s[2]) : \E ha \in Mats(s[1], s[3]) :
          orig = [bin_hash |-> h, signature |-> sg, F |-> f, H_A |-> ha,
                  C_A |-> [n |-> s[3], k |-> s[3] - s[1], d |-> d]]
    /\ res = <<>>
    /\ st = Null /\ ms = Null /\ rr = Null
    /\ NoCommand

\* the call verify_signature(bin_hash, message_len, sig_len, signature, F, C_A, H_A)
VerifyCall ==
    /\ pc = "call"
    /\ res' = <<verify_signature(orig.bin_hash, orig.bin_hash.c, orig.signature.c,
                                 orig.signature, orig.F, orig.C_A, orig.H_A)>>
    /\ pc' = "done"
    /\ UNCHANGED <<orig, matVars, cmdVars>>

NextVerify == VerifyCall

SpecVerify == InitVerify /\ [][NextVerify]_vars

\* C2: verify_signature reports "Verified: True" exactly when
\* L = F * hash_vector^T and R = H_A * sigma^T agree in every entry; the
\* weight of sigma plays no part
C2_VerifyIffEqual ==
    pc = "done" =>
        LET L == Gf2Product(orig.F, transpose_matrix(1, orig.bin_hash.c, orig.bin_hash))
            R == Gf2Product(orig.H_A, transpose_matrix(1, orig.signature.c, orig.signature))
        IN  /\ res[1].left = L
            /\ res[1].right = R
            /\ res[1].verified <=> (\A i \in 0..(L.r - 1) : L.e[i][0] = R.e[i][0])

\* C2 witness: a signature heavier than C_A.d is accepted on a nonzero syndrome
C2_Witness ==
    /\ pc = "done"
    /\ res[1].verified
    /\ Weight(orig.signature) > orig.C_A.d
    /\ \E i \in 0..(orig.F.r - 1) : res[1].left.e[i][0] = 1
    /\ orig.F.r >= 2

-----------------------------------------------------------------------------
(* The signer: the sign command of main.c; normalize_message_length        *)
(* (utils.h) and generate_signature are not in the source tree and follow  *)
(* the specification                                                       *)

\* largest length of the message file given to sign
MaxMsgLen == 2

\* the bytes of the message files: 'A' and 'B'
MessageBytes == {65, 66}

Messages == UNION { [1..l -> MessageBytes] : l \in 0..MaxMsgLen }

\* normalize_message_length: the first target_len bytes of msg, zero bytes
\* where msg has none
normalize_message_length(msg, msg_len, target_len) ==
    [i \in 1..target_len |-> IF i <= msg_len THEN msg[i] ELSE 0]

\* main.c:269, strlen(raw_msg): the number of bytes before the first zero byte
strlen(bytes) ==
    IF \E i \in 1..Len(bytes) : bytes[i] = 0
    THEN (CHOOSE i \in 1..Len(bytes) :
             bytes[i] = 0 /\ \A j \in 1..(i - 1) : bytes[j] # 0) - 1
    ELSE Len(bytes)

\* sign goes on with the raw message (a plausible slip: raw_msg used where
\* msg is meant)
SignNormalize_raw(raw_msg, target_len) == raw_msg

\* sign leaving the last byte of the file out (a plausible slip: raw_len - 1,
\* as if the file always ended in a newline)
SignNormalize_short(raw_msg, target_len) ==
    normalize_message_length(raw_msg, strlen(raw_msg) - 1, target_len)

\* main.c:269-271: raw_len = strlen(raw_msg) and the call of
\* normalize_message_length(raw_msg, raw_len, target_len, &msg_len)
SignNormalize(raw_msg, target_len) ==
    normalize_message_length(raw_msg, strlen(raw_msg), target_len)

\* sign normalizes to the dimension of the outer code (a plausible slip: C_A.k
\* for C1.k)
SignMessageLen_outer(p) == p.C_A.k

\* main.c:266, 271: the length sign normalizes the message to
SignMessageLen(p) == p.C1.k

\* the hash vector: one bit per byte of the normalized message, its value mod 2
HashVector(bin_hash, message, msg_len) ==
    [bin_hash EXCEPT !.e = [i \in 0..(bin_hash.r - 1) |-> [j \in 0..(msg_len - 1) |->
                               message[j + 1] % MOD]]]

\* the combined generator: G1 and G2 side by side
Gstar(G1, G2) ==
    [r |-> G1.r, c |-> G1.c + G2.c,
     e |-> [i \in 0..(G1.r - 1) |-> [j \in 0..(G1.c + G2.c - 1) |->
              IF j < G1.c THEN G1.e[i][j] ELSE G2.e[i][j - G1.c]]]]

\* generate_signature: bin_hash, F = H_A * Gstar^T and the signature
\* (s * G1 || s * G2) written into the matrices sign initialised
generate_signature(bin_hash, message, msg_len, C_A, C1, C2, H_A, G1, G2, F, signature) ==
    LET s   == HashVector(bin_hash, message, msg_len)
        GsT == nmod_mat_transpose(ZeroMat(C1.n + C2.n, G1.r), Gstar(G1, G2))
        c1  == nmod_mat_mul(ZeroMat(1, C1.n), s, G1)
        c2  == nmod_mat_mul(ZeroMat(1, C2.n), s, G2)
    IN  [bin_hash  |-> s,
         F         |-> nmod_mat_mul(F, H_A, GsT),
         signature |-> [signature EXCEPT !.e =
                           [i \in 0..(signature.r - 1) |-> [j \in 0..(signature.c - 1) |->
                               IF j < C1.n THEN c1.e[0][j] ELSE c2.e[0][j - C1.n]]]]]

\* sign asks the generator to regenerate without seeds (a plausible slip: the
\* two flags of lines 289-295 exchanged)
SignFlags_swapped == [regenerate |-> TRUE, use_seed_mode |-> FALSE]

\* main.c:289, 292, 295: the flags sign hands to get_or_generate_matrix_with_seed
SignFlags == [regenerate |-> FALSE, use_seed_mode |-> TRUE]

\* sign asking for G2 under a prefix of its own (a plausible slip: "G2" for
\* "G" at line 293)
SignKeys_prefix(c, p, f) ==
    LET fl == SignFlags
        sh == KeyShapes(p)
        rH == get_or_generate_matrix_with_seed(c, "H", p.C_A.n, p.C_A.k, p.C_A.d,
                  sh.H_A, fl.regenerate, fl.use_seed_mode, f[1])
        r1 == get_or_generate_matrix_with_seed(rH.cache, "G", p.C1.n, p.C1.k, p.C1.d,
                  sh.G1, fl.regenerate, fl.use_seed_mode, f[2])
        r2 == get_or_generate_matrix_with_seed(r1.cache, "G2", p.C2.n, p.C2.k, p.C2.d,
                  sh.G2, fl.regenerate, fl.use_seed_mode, f[3])
    IN  [cache |-> r2.cache, H_A |-> rH.matrix, G1 |-> r1.matrix, G2 |-> r2.matrix]

\* main.c:280-295: H_A, G1 and G2 as sign obtains them, and the cache afterwards
SignKeys(c, p, f) ==
    LET fl == SignFlags
        sh == KeyShapes(p)
        rH == get_or_generate_matrix_with_seed(c, "H", p.C_A.n, p.C_A.k, p.C_A.d,
                  sh.H_A, fl.regenerate, fl.use_seed_mode, f[1])
        r1 == get_or_generate_matrix_with_seed(rH.cache, "G", p.C1.n, p.C1.k, p.C1.d,
                  sh.G1, fl.regenerate, fl.use_seed_mode, f[2])
        r2 == get_or_generate_matrix_with_seed(r1.cache, "G", p.C2.n, p.C2.k, p.C2.d,
                  sh.G2, fl.regenerate, fl.use_seed_mode, f[3])
    IN  [cache |-> r2.cache, H_A |-> rH.matrix, G1 |-> r1.matrix, G2 |-> r2.matrix]

-----------------------------------------------------------------------------
(* Scenario Sign: on a cache a keygen --use-seed run has filled, sign a    *)
(* message file, possibly flip one bit of signature.txt, and give the      *)
(* files of the output directory to verify_signature.                      *)

InitSign ==
    /\ pc = "keyed"
    /\ \E inp \in UserInputs : \E f \in (0..MaxSeed) \X (0..MaxSeed) \X (0..MaxSeed) :
       \E m \in Messages :
          LET p   == get_user_input(inp, Null)
              run == generate_keys(EmptyCache, p, TRUE, FALSE, f)
          IN  /\ params = p
              /\ cache = run.cache
              /\ keys = run.keys
              /\ orig = [message |-> m, flip |-> -1]
    /\ out = Null
    /\ res = <<>>
    /\ st = Null /\ ms = Null /\ rr = Null

\* main.c:246-316: sign -m message; the message file exists and holds orig.message
Sign ==
    /\ pc = "keyed"
    /\ LET p       == params
           msg_len == SignMessageLen(p)
           msg     == SignNormalize(orig.message, msg_len)
           fl      == SignFlags
       IN  \E f \in FreshChoices(cache, p, fl.use_seed_mode, fl.regenerate) :
           \E k \in {SignKeys(cache, p, f)} :
           \E sig \in {generate_signature(ZeroMat(1, msg_len), msg, msg_len,
                             p.C_A, p.C1, p.C2, k.H_A, k.G1, k.G2,
                             ZeroMat(p.C_A.n - p.C_A.k, p.C1.k), ZeroMat(1, p.C_A.n))} :
                  /\ cache' = k.cache
                  /\ out' = [hash |-> sig.bin_hash, signature |-> sig.signature,
                             public_key |-> sig.F]
    /\ pc' = "signed"
    /\ UNCHANGED <<orig, res, params, keys, matVars>>

\* bit i of signature.txt is flipped between sign and verify
Tamper(i) ==
    /\ pc = "signed"
    /\ i \in 0..(out.signature.c - 1)
    /\ out' = [out EXCEPT !.signature.e[0][i] = 1 - @]
    /\ orig' = [orig EXCEPT !.flip = i]
    /\ pc' = "tampered"
    /\ UNCHANGED <<res, params, cache, keys, matVars>>

\* main.c:373-398 and verifier.c:31-67: H_A through the generator, the hash,
\* the signature and F from the output directory, and verify_signature on
\* them with message_len the length of the stored hash vector
VerifySigned ==
    /\ pc \in {"signed", "tampered"}
    /\ LET p == params
       IN  \E fresh \in FreshFor(cache, "H", p.C_A.n, p.C_A.k, p.C_A.d, FALSE, TRUE) :
              \E rH \in {get_or_generate_matrix_with_seed(cache, "H", p.C_A.n, p.C_A.k,
                            p.C_A.d, ZeroMat(p.C_A.n - p.C_A.k, p.C_A.n),
                            FALSE, TRUE, fresh)} :
                  /\ cache' = rH.cache
                  /\ res' = <<verify_signature(out.hash, out.hash.c, p.C_A.n,
                                  out.signature, out.public_key, p.C_A, rH.matrix)>>
    /\ pc' = "verified"
    /\ UNCHANGED <<orig, out, params, keys, matVars>>

NextSign ==
    \/ Sign
    \/ \E i \in 0..(params.C_A.n - 1) : Tamper(i)
    \/ VerifySigned

SpecSign == InitSign /\ [][NextSign]_vars

-----------------------------------------------------------------------------
(* Claims about sign and verify *)

\* columns from .. from + width - 1 of M
ColBlock(M, from, width) ==
    [r |-> M.r, c |-> width,
     e |-> [i \in 0..(M.r - 1) |-> [j \in 0..(width - 1) |-> M.e[i][from + j]]]]

\* the entrywise XOR of two matrices of one shape
MatXor(A, B) ==
    [r |-> A.r, c |-> A.c,
     e |-> [i \in 0..(A.r - 1) |-> [j \in 0..(A.c - 1) |-> (A.e[i][j] + B.e[i][j]) % 2]]]

\* s * G1 followed by s * G2
Codeword(s, G1, G2) ==
    LET c1 == Gf2Product(s, G1)
        c2 == Gf2Product(s, G2)
    IN  [r |-> 1, c |-> G1.c + G2.c,
         e |-> [i \in 0..0 |-> [j \in 0..(G1.c + G2.c - 1) |->
                  IF j < G1.c THEN c1.e[0][j] ELSE c2.e[0][j - G1.c]]]]

\* H_A^(1) * G1^T XOR H_A^(2) * G2^T for the keys the key generator produced
BlockProduct ==
    MatXor(Gf2Product(ColBlock(keys.H_A, 0, keys.G1.c),
                      transpose_matrix(keys.G1.r, keys.G1.c, keys.G1)),
           Gf2Product(ColBlock(keys.H_A, keys.G1.c, keys.G2.c),
                      transpose_matrix(keys.G2.r, keys.G2.c, keys.G2)))

\* column i of H has no one
ZeroColumn(H, i) == \A j \in 0..(H.r - 1) : H.e[j][i] = 0

\* C1: for every message and every key triple keygen produced, sign writes
\* s = hash(m) (one bit per byte of the normalized message), sigma =
\* (s * G1 || s * G2) and F with H_A * sigma^T = F * s^T, and verify_signature
\* on (s, sigma, F, H_A) reports Verified: True
C1_RoundTrip ==
    (pc = "verified" /\ orig.flip = -1) =>
        LET s  == out.hash
            sg == out.signature
            m  == orig.message
        IN  /\ s.r = 1 /\ s.c = params.C1.k
            /\ \A j \in 0..(s.c - 1) :
                  s.e[0][j] = IF j < Len(m) THEN m[j + 1] % 2 ELSE 0
            /\ sg = Codeword(s, keys.G1, keys.G2)
            /\ Gf2Product(keys.H_A, transpose_matrix(1, sg.c, sg))
                 = Gf2Product(out.public_key, transpose_matrix(1, s.c, s))
            /\ res[1].verified

\* C1 witness: a message shorter than the hash vector was signed and its
\* signature accepted on a syndrome that is not zero
C1_Witness ==
    /\ pc = "verified" /\ orig.flip = -1
    /\ res[1].verified
    /\ Len(orig.message) \in 1..(params.C1.k - 1)
    /\ res[1].left.r >= 2
    /\ \E i \in 0..(res[1].left.r - 1) : res[1].left.e[i][0] = 1

\* C3 as stated: the F sign emits has shape (n_A - k_A, k_A) and equals
\* H_A^(1) * G1^T XOR H_A^(2) * G2^T
C3_PublicKeyShapeKA ==
    pc # "keyed" =>
        /\ out.public_key.r = params.C_A.n - params.C_A.k
        /\ out.public_key.c = params.C_A.k
        /\ out.public_key = BlockProduct

\* C3 as amended: the F sign emits has shape (n_A - k_A, k_1), k_1 being the
\* dimension of the inner code C1 (the length of the hash vector), and equals
\* H_A^(1) * G1^T XOR H_A^(2) * G2^T for the keys keygen produced
C3_PublicKeyIdentity ==
    pc # "keyed" =>
        /\ out.public_key.r = params.C_A.n - params.C_A.k
        /\ out.public_key.c = params.C1.k
        /\ out.public_key = BlockProduct

\* C3 witness: sign has written a public key that is not zero, under
\* parameters whose k_A differs from k_1 and whose inner codes differ
C3_Witness ==
    /\ pc = "signed"
    /\ params.C_A.k # params.C1.k
    /\ out.public_key.r >= 2
    /\ out.public_key # ZeroMat(out.public_key.r, out.public_key.c)
    /\ keys.G1 # ZeroMat(keys.G1.r, keys.G1.c)

\* C4 as stated: verify_signature rejects the honest signature with any one
\* bit flipped
C4_TamperRejected ==
    (pc = "verified" /\ orig.flip >= 0) => ~res[1].verified

\* C4 as amended: verify_signature rejects the honest signature with bit i
\* flipped exactly when column i of H_A is not zero
C4_TamperRejectedIffColumn ==
    (pc = "verified" /\ orig.flip >= 0) =>
        (~res[1].verified <=> ~ZeroColumn(keys.H_A, orig.flip))

\* C4 witness: a flipped bit under a column of H_A that is not zero was
\* rejected, on an H_A that also has a zero column
C4_Witness ==
    /\ pc = "verified" /\ orig.flip >= 0
    /\ ~res[1].verified
    /\ ~ZeroColumn(keys.H_A, orig.flip)
    /\ \E i \in 0..(keys.H_A.c - 1) : ZeroColumn(keys.H_A, i)
    /\ out.signature # ZeroMat(1, out.signature.c)

-----------------------------------------------------------------------------
(* Scenario Params: get_user_input without a parameter file, answered      *)
(* through the BCH prompt or with entered or random triples, and then      *)
(* again with the parameter file it wrote                                  *)

\* largest m and t entered at the BCH prompt
MaxBchM == 4

MaxBchT == 2

\* largest n entered at the prompts of get_param_input
MaxEntryN == 4

\* lines 130-154: the triples get_param_input hands back
EnteredEntries ==
    { e \in [n : 1..MaxEntryN, k : 1..MaxEntryN, d : 1..MaxEntryN] : ValidEntry(e) }

\* lines 92-98: the triples generate_random_params hands back
RandomEntries ==
    { e \in [n : 16..17, k : 6..7, d : 3..4] : ValidEntry(e) }

ParamInputs ==
    { [path |-> "bch", m |-> m, t |-> t] : m \in 1..MaxBchM, t \in 1..MaxBchT }
    \cup { [path |-> "free", g1 |-> a, g2 |-> b] :
             a \in EnteredEntries \cup RandomEntries,
             b \in EnteredEntries \cup RandomEntries }

InitParams ==
    /\ pc = "prompt"
    /\ params = Null
    /\ orig = Null
    /\ res = <<>>
    /\ cache = Null /\ keys = Null /\ out = Null
    /\ st = Null /\ ms = Null /\ rr = Null

\* lines 178-261 with no parameter file: the prompts answered by inp
GetUserInput(inp) ==
    /\ pc = "prompt"
    /\ orig' = inp
    /\ params' = get_user_input(inp, params)
    /\ pc' = "entered"
    /\ UNCHANGED <<res, cache, keys, out, matVars>>

\* lines 178-261 with the parameter file of the earlier call, and yes
\* answered to "use it?"
UseSaved ==
    /\ pc = "entered"
    /\ params' = get_user_input([path |-> "saved"], params)
    /\ pc' = "reloaded"
    /\ UNCHANGED <<orig, res, cache, keys, out, matVars>>

NextParams ==
    \/ \E inp \in ParamInputs : GetUserInput(inp)
    \/ UseSaved

SpecParams == InitParams /\ [][NextParams]_vars

\* C16: after get_user_input returns from entered or random triples, G1 is
\* as entered, G2 keeps its n and d and has G1's k, and the outer code is
\* n_A = n_1 + n_2, k_A = G1.k, d_A = d_1 + d_2
C16_FreeEntry ==
    (pc \in {"entered", "reloaded"} /\ orig.path = "free") =>
        /\ params.C1 = orig.g1
        /\ params.C2 = [n |-> orig.g2.n, k |-> orig.g1.k, d |-> orig.g2.d]
        /\ params.C1.k = params.C2.k
        /\ params.C_A.n = params.C1.n + params.C2.n
        /\ params.C_A.k = params.C1.k
        /\ params.C_A.d = params.C1.d + params.C2.d

\* C16 witness: triples with different k were entered, and G2's k was replaced
C16_Witness ==
    /\ pc = "entered" /\ orig.path = "free"
    /\ orig.g2.k # orig.g1.k
    /\ params.C2 # orig.g2
    /\ params.C1.n # params.C2.n

\* C17 as stated: with m and t entered, n_1 = n_2 = 2^m - 1, k_1 = k_2 = m*t,
\* d_1 = d_2 = 2t + 1 and n_A = n_1 + n_2, k_A = k_1, d_A = d_1 + d_2
C17_BchDerivationSum ==
    (pc \in {"entered", "reloaded"} /\ orig.path = "bch") =>
        /\ params.C1 = [n |-> 2^orig.m - 1, k |-> orig.m * orig.t, d |-> 2 * orig.t + 1]
        /\ params.C2 = params.C1
        /\ params.C_A = [n |-> params.C1.n + params.C2.n, k |-> params.C1.k,
                         d |-> params.C1.d + params.C2.d]

\* C17 as amended: with m and t entered, n_1 = n_2 = 2^m - 1, k_1 = k_2 = m*t,
\* d_1 = d_2 = 2t + 1, n_A = n_1 + n_2, d_A = d_1 + d_2 + 1 and k_A is the
\* integer part of n_A * (1 - h(d_A / n_A)), h the binary entropy taken as 0
\* outside (0, 1): k_A = n_A when d_A >= n_A, 0 when d_A is half of n_A, and
\* m = 3, t = 1 gives C_A = (14, 0, 7), m = 3, t = 2 gives (14, 3, 11), m = 4,
\* t = 1 gives (30, 6, 7), m = 4, t = 2 gives (30, 1, 11)
C17_BchDerivation ==
    (pc \in {"entered", "reloaded"} /\ orig.path = "bch") =>
        /\ params.C1 = [n |-> 2^orig.m - 1, k |-> orig.m * orig.t, d |-> 2 * orig.t + 1]
        /\ params.C2 = params.C1
        /\ params.C_A.n = params.C1.n + params.C2.n
        /\ params.C_A.d = params.C1.d + params.C2.d + 1
        /\ params.C_A.k \in 0..params.C_A.n
        /\ params.C_A.d >= params.C_A.n => params.C_A.k = params.C_A.n
        /\ 2 * params.C_A.d = params.C_A.n => params.C_A.k = 0
        /\ (orig.m = 3 /\ orig.t = 1) => params.C_A = [n |-> 14, k |-> 0, d |-> 7]
        /\ (orig.m = 3 /\ orig.t = 2) => params.C_A = [n |-> 14, k |-> 3, d |-> 11]
        /\ (orig.m = 4 /\ orig.t = 1) => params.C_A = [n |-> 30, k |-> 6, d |-> 7]
        /\ (orig.m = 4 /\ orig.t = 2) => params.C_A = [n |-> 30, k |-> 1, d |-> 11]

\* C17 witness: m = 3 and t = 1 were entered and the parameter file read back
C17_Witness ==
    /\ pc = "reloaded" /\ orig.path = "bch"
    /\ orig.m = 3 /\ orig.t = 1
    /\ params.C1 = [n |-> 7, k |-> 3, d |-> 3]
    /\ params.C_A.k # params.C1.k

-----------------------------------------------------------------------------
(* Scenario Norm: the normalization of sign applied to a message, and      *)
(* again to the buffer it returned                                         *)

\* largest target length of a normalization
MaxTarget == 5

InitNorm ==
    /\ pc = "raw"
    /\ \E m \in Messages : \E L \in 0..MaxTarget : orig = [message |-> m, L |-> L]
    /\ res = <<>>
    /\ st = Null /\ ms = Null /\ rr = Null
    /\ NoCommand

\* main.c:269-271 on the message
Normalize ==
    /\ pc = "raw"
    /\ res' = <<SignNormalize(orig.message, orig.L)>>
    /\ pc' = "once"
    /\ UNCHANGED <<orig, matVars, cmdVars>>

\* main.c:269-271 on the buffer the first call returned
NormalizeAgain ==
    /\ pc = "once"
    /\ res' = Append(res, SignNormalize(res[1], orig.L))
    /\ pc' = "twice"
    /\ UNCHANGED <<orig, matVars, cmdVars>>

NextNorm == Normalize \/ NormalizeAgain

SpecNorm == InitNorm /\ [][NextNorm]_vars

\* C18: normalize(m, L) has exactly L bytes, the first L bytes of m followed
\* by zero bytes where m is shorter, and normalizing it again to L changes
\* nothing
C18_NormalizeIdempotent ==
    /\ pc \in {"once", "twice"} =>
          /\ Len(res[1]) = orig.L
          /\ \A i \in 1..orig.L :
                res[1][i] = IF i <= Len(orig.message) THEN orig.message[i] ELSE 0
    /\ pc = "twice" => res[2] = res[1]

\* C18 witness: a message shorter than L was padded and normalized again
C18_Witness ==
    /\ pc = "twice"
    /\ Len(orig.message) \in 1..(orig.L - 2)
    /\ strlen(res[1]) < orig.L
    /\ res[2] = res[1]

-----------------------------------------------------------------------------
(* Claims about the hash vector of sign (scenario Sign) *)

\* byte i (from 0) of the message truncated or zero-padded to L bytes, mod 2
ParityAt(m, i) == IF i < Len(m) THEN m[i + 1] % 2 ELSE 0

\* C19 as stated: the hash vector sign writes has length k_A and s[i] is byte
\* i of the message truncated or zero-padded to k_A bytes, mod 2; the empty
\* message gives the zero hash vector and the zero signature of length n_A
C19_HashVectorKA ==
    pc # "keyed" =>
        /\ out.hash.r = 1
        /\ out.hash.c = params.C_A.k
        /\ \A i \in 0..(params.C_A.k - 1) : out.hash.e[0][i] = ParityAt(orig.message, i)
        /\ (orig.message = <<>> /\ orig.flip = -1) =>
              /\ out.hash = ZeroMat(1, params.C_A.k)
              /\ out.signature = ZeroMat(1, params.C_A.n)

\* C19 as amended: the hash vector sign writes has length k_1, the dimension
\* of the inner code C1, and s[i] is byte i of the message truncated or
\* zero-padded to k_1 bytes, mod 2; the empty message gives the zero hash
\* vector and the zero signature of length n_A
C19_HashVector ==
    pc # "keyed" =>
        /\ out.hash.r = 1
        /\ out.hash.c = params.C1.k
        /\ \A i \in 0..(params.C1.k - 1) : out.hash.e[0][i] = ParityAt(orig.message, i)
        /\ (orig.message = <<>> /\ orig.flip = -1) =>
              /\ out.hash = ZeroMat(1, params.C1.k)
              /\ out.signature = ZeroMat(1, params.C_A.n)

\* C19 witness: a message longer than the hash vector was signed, its first
\* byte odd, under parameters with k_A = k_1, and the signature is not zero
C19_Witness ==
    /\ pc = "signed"
    /\ Len(orig.message) > params.C1.k
    /\ params.C_A.k = params.C1.k
    /\ out.hash.e[0][0] = 1
    /\ out.signature # ZeroMat(1, params.C_A.n)

\* C26: after any keygen run under parameters with C1 = C2, the cache holds
\* one generator matrix file and at most one generator seed file, and the
\* sign command run on that cache obtains G1 and G2 as the same matrix,
\* whatever the CSPRNG would yield
C26_InnerKeyCollision ==
    (Len(res) > 0 /\ params.C1 = params.C2) =>
        /\ Cardinality({ name \in DOMAIN cache.mat : name[1] = "G" }) = 1
        /\ Cardinality({ name \in DOMAIN cache.seed : name[1] = "G" }) <= 1
        /\ \A f \in (0..MaxSeed) \X (0..MaxSeed) \X (0..MaxSeed) :
              \E k \in {SignKeys(cache, params, f)} : k.G1 = k.G2

\* C26 witness: a keygen run under C1 = C2 held two different matrices G1 and
\* G2 when it returned, and one generator matrix file exists
C26_Witness ==
    /\ Len(res) > 0
    /\ params.C1 = params.C2
    /\ ValidEntry(params.C1)
    /\ keys.G1 # keys.G2
    /\ Cardinality({ name \in DOMAIN cache.mat : name[1] = "G" }) = 1

\* hash.txt, signature.txt and public_key.txt as sign writes them for the
\* message file m, on the cache and parameters of the state
SignedFiles(m) ==
    LET p       == params
        msg_len == SignMessageLen(p)
        msg     == SignNormalize(m, msg_len)
        k       == SignKeys(cache, p, <<0, 0, 0>>)
        sig     == generate_signature(ZeroMat(1, msg_len), msg, msg_len,
                       p.C_A, p.C1, p.C2, k.H_A, k.G1, k.G2,
                       ZeroMat(p.C_A.n - p.C_A.k, p.C1.k), ZeroMat(1, p.C_A.n))
    IN  [hash |-> sig.bin_hash, signature |-> sig.signature, public_key |-> sig.F]

\* m1 and m2, truncated or zero-padded to L bytes, agree modulo 2 in every byte
SameParities(m1, m2, L) == \A i \in 0..(L - 1) : ParityAt(m1, i) = ParityAt(m2, i)

\* C28 as stated: with the keys fixed, every message whose k_A-byte
\* normalization agrees modulo 2 with that of the signed message gives the
\* same hash vector, F and signature
C28_SignParitiesKA ==
    pc = "signed" =>
        \A m2 \in Messages :
            SameParities(orig.message, m2, params.C_A.k) => SignedFiles(m2) = out

\* C28: with the keys fixed, every message whose k_1-byte normalization
\* (k_1 = C1.k) agrees modulo 2 with that of the signed message gives the
\* same hash vector, F and signature
C28_SignParities ==
    pc = "signed" =>
        \A m2 \in Messages :
            SameParities(orig.message, m2, params.C1.k) => SignedFiles(m2) = out

\* C28 witness: the signed message has a message of another length with the
\* same parities, and its hash vector and signature are not zero
C28_Witness ==
    /\ pc = "signed"
    /\ \E m2 \in Messages :
          /\ Len(m2) # Len(orig.message)
          /\ SameParities(orig.message, m2, params.C1.k)
    /\ out.hash.e[0][0] = 1
    /\ out.signature # ZeroMat(1, params.C_A.n)

-----------------------------------------------------------------------------
(* The verify command of main.c.  load_params, load_matrix and read_file   *)
(* (utils.h) are not in the source tree: a missing file makes the load     *)
(* fail, as the specification says; what load_matrix does with a file      *)
(* whose shape is not the shape of the matrix handed to it is not fixed    *)
(* anywhere, so every behaviour is possible.                               *)

\* the files of the output directory the verify command reads
CliFiles == {"params", "signature", "hash", "public_key"}

\* load_params (utils.h:80): the codes of params.txt, FALSE when it is missing
load_params(dir) ==
    IF "params" \in DOMAIN dir THEN [ok |-> TRUE, params |-> dir["params"]]
    ELSE [ok |-> FALSE, params |-> Null]

\* load_matrix (utils.h:45): the possible results of loading file name into
\* matrix.  A missing file fails and leaves the matrix as initialised; a file
\* of another shape fails, or fills the entries that exist, or gives the
\* matrix the shape of the file
load_matrix(dir, name, matrix) ==
    IF name \notin DOMAIN dir THEN { [ok |-> FALSE, matrix |-> matrix] }
    ELSE LET file == dir[name]
         IN  IF file.r = matrix.r /\ file.c = matrix.c
             THEN { [ok |-> TRUE, matrix |-> file] }
             ELSE { [ok |-> FALSE, matrix |-> matrix],
                    [ok |-> TRUE, matrix |-> file],
                    [ok |-> TRUE,
                     matrix |-> [matrix EXCEPT !.e =
                        [i \in 0..(matrix.r - 1) |-> [j \in 0..(matrix.c - 1) |->
                            IF i < file.r /\ j < file.c THEN file.e[i][j] ELSE 0]]]] }

\* verify returns 1 from its last statement too (a plausible slip: the
\* status of an error path copied to the end)
VerifyStatus_fail(at) == 1

\* main.c:371, 389, 395, 403: the value of each return statement of verify
VerifyStatus(at) == IF at = "end" THEN 0 ELSE 1

\* verify recomputing the hash vector from the message it read (a plausible
\* slip, or repair: the bits of message written over the loaded bin_hash)
VerifyHash_recomputed(bin_hash, message) ==
    [bin_hash EXCEPT !.e = [i \in 0..(bin_hash.r - 1) |-> [j \in 0..(bin_hash.c - 1) |->
        IF j < Len(message) THEN message[j + 1] % MOD ELSE 0]]]

\* main.c:366, 386-398: the hash vector verify hands to verify_signature is
\* bin_hash as loaded from hash.txt; message is never read
VerifyHash(bin_hash, message) == bin_hash

\* verifier.c:31-67 as verify calls it at line 398: the lines verify_signature
\* may leave in the log.  nmod_mat_transpose and nmod_mat_mul on shapes that
\* do not fit are outside FLINT's contract: the process may stop, or go on
\* to either verdict
VerifierOutcomes(bin_hash, msg_len, p, signature, F, H_A) ==
    IF bin_hash.c = msg_len /\ F.c = msg_len
    THEN { IF verify_signature(bin_hash, msg_len, p.C_A.n, signature, F, p.C_A,
                               H_A).verified
           THEN "True" ELSE "False" }
    ELSE {"True", "False", "crash"}

\* main.c:347-404: verify -m message -s signature on the output directory
\* dir and the cache c; raw_msg is what read_file returns.  The results are
\* the exit status, the "Verified:" line of the log ("none" if there is
\* none), what verify_signature returns to verify (it is void), the
\* resources still held at the return, and what was loaded
verify(dir, c, raw_msg, fresh) ==
    LET msg_len == strlen(raw_msg)
        opened  == {"msg", "output_file"}
        lp      == load_params(dir)
    IN  IF ~lp.ok
        THEN { [exit |-> VerifyStatus("params"), log |-> "none", returned |-> "void",
                leaked |-> opened, cache |-> c, compared |-> FALSE,
                loaded |-> Null] }
        ELSE
        LET p    == lp.params
            held == opened \cup {"H_A", "F", "signature", "bin_hash"}
            rH   == get_or_generate_matrix_with_seed(c, "H", p.C_A.n, p.C_A.k, p.C_A.d,
                        ZeroMat(p.C_A.n - p.C_A.k, p.C_A.n), FALSE, TRUE, fresh)
        IN  UNION { UNION {
              IF ~h.ok
              THEN { [exit |-> VerifyStatus("hash"), log |-> "none", returned |-> "void",
                      leaked |-> held, cache |-> rH.cache, compared |-> FALSE,
                      loaded |-> Null] }
              ELSE UNION {
                IF ~f.ok
                THEN { [exit |-> VerifyStatus("public_key"), log |-> "none",
                        returned |-> "void", leaked |-> held, cache |-> rH.cache,
                        compared |-> FALSE, loaded |-> Null] }
                ELSE { IF v = "crash"
                       THEN [exit |-> 134, log |-> "none", returned |-> "void",
                             leaked |-> held, cache |-> rH.cache, compared |-> FALSE,
                             loaded |-> Null]
                       ELSE [exit |-> VerifyStatus("end"), log |-> v, returned |-> "void",
                             leaked |-> {}, cache |-> rH.cache,
                             compared |-> h.matrix.c = msg_len /\ f.matrix.c = msg_len,
                             loaded |-> [bin_hash |-> VerifyHash(h.matrix, raw_msg),
                                         signature |-> s.matrix,
                                         F |-> f.matrix, H_A |-> rH.matrix]] :
                       v \in VerifierOutcomes(VerifyHash(h.matrix, raw_msg), msg_len, p,
                                              s.matrix, f.matrix, rH.matrix) } :
                f \in load_matrix(dir, "public_key", ZeroMat(p.C_A.n - p.C_A.k, p.C1.k)) } :
              h \in load_matrix(dir, "hash", ZeroMat(1, msg_len)) } :
              s \in load_matrix(dir, "signature", ZeroMat(1, p.C_A.n)) }

-----------------------------------------------------------------------------
(* Scenario Cli: keygen --use-seed, then sign -m message, then possibly a   *)
(* flipped signature bit or a file removed from the output directory, then *)
(* verify -m message -s signature.txt on the same message file             *)

\* the answers given to the prompts of keygen
CliInputs ==
    { [path |-> "bch", m |-> 3, t |-> 1],
      [path |-> "free", g1 |-> [n |-> 3, k |-> 2, d |-> 1],
                        g2 |-> [n |-> 3, k |-> 1, d |-> 2]] }

InitCli ==
    /\ pc = "keyed"
    /\ \E inp \in CliInputs : \E s \in 0..MaxSeed : \E m \in Messages :
          LET p   == get_user_input(inp, Null)
              run == generate_keys(EmptyCache, p, TRUE, FALSE, <<s, s, s>>)
          IN  /\ params = p
              /\ cache = run.cache
              /\ keys = run.keys
              /\ orig = [message |-> m, flip |-> -1, lost |-> {}]
    /\ out = Null
    /\ res = <<>>
    /\ st = Null /\ ms = Null /\ rr = Null

\* file name of the output directory is removed between sign and verify
Remove(name) ==
    /\ pc \in {"signed", "tampered"}
    /\ name \in CliFiles
    /\ orig' = [orig EXCEPT !.lost = {name}]
    /\ pc' = "removed"
    /\ UNCHANGED <<out, res, params, cache, keys, matVars>>

\* the output directory as verify finds it
OutputDir ==
    [name \in CliFiles \ orig.lost |-> IF name = "params" THEN params ELSE out[name]]

\* main.c:347-404: one run of the verify command
VerifyCommand ==
    /\ pc \in {"signed", "tampered", "removed"}
    /\ \E fresh \in FreshFor(cache, "H", params.C_A.n, params.C_A.k, params.C_A.d,
                             FALSE, TRUE) :
          \E run \in verify(OutputDir, cache, orig.message, fresh) :
             /\ cache' = run.cache
             /\ res' = <<run>>
    /\ pc' = "exited"
    /\ UNCHANGED <<orig, out, params, keys, matVars>>

NextCli ==
    \/ Sign
    \/ \E i \in 0..(params.C_A.n - 1) : Tamper(i)
    \/ \E name \in CliFiles : Remove(name)
    \/ VerifyCommand

SpecCli == InitCli /\ [][NextCli]_vars

\* C12: a verify run that cannot load one of its input matrices (signature
\* file, hash.txt, public_key.txt) ends with a non-zero exit and no
\* "Verified:" line in the log (stated for messages of k_1 bytes, where the
\* shapes of all files fit)
C12_LoadFailureFatal ==
    (/\ pc = "exited"
     /\ Len(orig.message) = params.C1.k
     /\ orig.lost \cap {"signature", "hash", "public_key"} # {}) =>
        /\ res[1].exit # 0
        /\ res[1].log = "none"

\* C13 as stated: a verify run that reaches the comparison exits 0 on accept
\* and on reject, writes the verdict to the log, and verify_signature returns
\* the verdict to its caller
C13_RejectNotErrorReturned ==
    (pc = "exited" /\ res[1].log # "none") =>
        /\ res[1].exit = 0
        /\ res[1].returned = res[1].log

\* C13: a verify run that reaches the comparison exits 0 on accept and on
\* reject; the verdict is written to the log, "True" exactly when
\* F * hash^T and H_A * sigma^T of the loaded matrices agree, and
\* verify_signature returns nothing to its caller
C13_RejectNotError ==
    (pc = "exited" /\ res[1].log # "none") =>
        /\ res[1].exit = 0
        /\ res[1].returned = "void"
        /\ res[1].log \in {"True", "False"}
        /\ res[1].compared =>
              LET ld == res[1].loaded
                  L  == Gf2Product(ld.F, transpose_matrix(1, ld.bin_hash.c, ld.bin_hash))
                  R  == Gf2Product(ld.H_A, transpose_matrix(1, ld.signature.c, ld.signature))
              IN  (res[1].log = "True") <=> (L = R)

\* C13 witness: a tampered signature is rejected, "Verified: False" is in the
\* log and the exit status is 0
C13_Witness ==
    /\ pc = "exited"
    /\ orig.flip >= 0
    /\ orig.lost = {}
    /\ res[1].compared
    /\ res[1].log = "False"
    /\ res[1].exit = 0

\* C14: a verify run holds no matrix, no log file handle and no message
\* buffer when it returns, whatever the exit path (stated for messages of
\* k_1 bytes, where the shapes of all files fit)
C14_ResourcesReleased ==
    (pc = "exited" /\ Len(orig.message) = params.C1.k) => res[1].leaked = {}

\* C20: sign on a message file and then verify on the same message file and
\* the emitted files, nothing tampered or removed, ends in "Verified: True"
\* with exit status 0, whatever the length of the message
C20_CliRoundTrip ==
    (pc = "exited" /\ orig.flip = -1 /\ orig.lost = {}) =>
        /\ res[1].exit = 0
        /\ res[1].log = "True"

\* C27: the run of verify that took place is also a run of verify on every
\* other message file of the same length: exit status, log line and the
\* matrices compared depend on hash.txt, public_key.txt, the signature file
\* and H_A, and on the message only through its length
C27_VerifyIgnoresMessage ==
    pc = "exited" =>
        \A m2 \in Messages :
            Len(m2) = Len(orig.message) => res[1] \in verify(OutputDir, cache, m2, 0)

\* C27 witness: verify accepted after sign on a message of k_1 >= 2 bytes, so
\* that messages of the same length with other parities exist
C27_Witness ==
    /\ pc = "exited"
    /\ orig.flip = -1
    /\ orig.lost = {}
    /\ Len(orig.message) = params.C1.k
    /\ params.C1.k >= 2
    /\ res[1].compared
    /\ res[1].log = "True"
    /\ \E j \in 0..(out.hash.c - 1) : out.hash.e[0][j] = 1

-----------------------------------------------------------------------------
(* Scenario Par: the three get_or_generate calls of one generate_keys run  *)
(* as three concurrent workers on one cache directory.  Each call is the   *)
(* resolution order of the generator taken one file operation at a time:   *)
(* test for the matrix file, load it, test for and load the seed file,     *)
(* write a drawn seed, write the generated matrix.                         *)

Workers == {"H_A", "G1", "G2"}

\* the request of worker w under the parameters p: prefix, code and matrix
WorkerRequest(p, w) ==
    LET sh == KeyShapes(p)
    IN  IF w = "H_A" THEN [prefix |-> "H", code |-> p.C_A, matrix |-> sh.H_A]
        ELSE IF w = "G1" THEN [prefix |-> "G", code |-> p.C1, matrix |-> sh.G1]
        ELSE [prefix |-> "G", code |-> p.C2, matrix |-> sh.G2]

WorkerName(p, w) ==
    LET q == WorkerRequest(p, w)
    IN  generate_matrix_filename(q.prefix, q.code.n, q.code.k, q.code.d)

\* the caches a generate_keys run may start on: empty, or left by a keygen run
ParCaches(p) ==
    {EmptyCache} \cup
    { generate_keys(EmptyCache, p, u, FALSE, <<0, 0, 0>>).cache : u \in BOOLEAN }

InitPar ==
    /\ pc = "par"
    /\ \E inp \in KeygenInputs : \E u \in BOOLEAN : \E g \in BOOLEAN :
       \E f \in [Workers -> 0..MaxSeed] : \E c \in ParCaches(get_user_input(inp, Null)) :
          /\ params = get_user_input(inp, Null)
          /\ orig = [use_seed_mode |-> u, regenerate |-> g, fresh |-> f, cache |-> c]
          /\ cache = c
          /\ res = [w \in Workers |->
                      [at |-> "check", seed |-> 0,
                       matrix |-> WorkerRequest(get_user_input(inp, Null), w).matrix]]
    /\ keys = Null
    /\ out = Null
    /\ st = Null /\ ms = Null /\ rr = Null

\* step 1: the test for the matrix file
ParCheck(w) ==
    /\ pc = "par"
    /\ res[w].at = "check"
    /\ res' = [res EXCEPT ![w].at =
                 IF ~orig.regenerate /\ file_exists(cache.mat, WorkerName(params, w))
                 THEN "load"
                 ELSE IF orig.use_seed_mode THEN "seed" ELSE "draw"]
    /\ UNCHANGED <<pc, orig, params, cache, keys, out, matVars>>

\* step 1: the matrix file is loaded and the call returns
ParLoad(w) ==
    /\ pc = "par"
    /\ res[w].at = "load"
    /\ res' = [res EXCEPT ![w].at = "done",
                          ![w].matrix = cache.mat[WorkerName(params, w)]]
    /\ UNCHANGED <<pc, orig, params, cache, keys, out, matVars>>

\* step 2: the test for the seed file; a cached seed is loaded
ParSeed(w) ==
    /\ pc = "par"
    /\ res[w].at = "seed"
    /\ res' = IF file_exists(cache.seed, WorkerName(params, w))
              THEN [res EXCEPT ![w].at = "store",
                               ![w].seed = cache.seed[WorkerName(params, w)]]
              ELSE [res EXCEPT ![w].at = "persist"]
    /\ UNCHANGED <<pc, orig, params, cache, keys, out, matVars>>

\* step 2: a fresh seed is drawn and written to the seed file
ParPersist(w) ==
    /\ pc = "par"
    /\ res[w].at = "persist"
    /\ res' = [res EXCEPT ![w].at = "store", ![w].seed = orig.fresh[w]]
    /\ cache' = [cache EXCEPT !.seed = save_file(cache.seed, WorkerName(params, w),
                                                 orig.fresh[w])]
    /\ UNCHANGED <<pc, orig, params, keys, out, matVars>>

\* step 3: the matrix is drawn from the CSPRNG directly
ParDraw(w) ==
    /\ pc = "par"
    /\ res[w].at = "draw"
    /\ res' = [res EXCEPT ![w].at = "store", ![w].seed = orig.fresh[w]]
    /\ UNCHANGED <<pc, orig, params, cache, keys, out, matVars>>

\* steps 2 and 3: the matrix is generated, systematized, written to the
\* matrix file and returned
ParStore(w) ==
    /\ pc = "par"
    /\ res[w].at = "store"
    /\ LET q == WorkerRequest(params, w)
           M == generate_from_seed(q.prefix, q.code.n, q.code.k, q.code.d, q.matrix,
                                   res[w].seed)
       IN  /\ res' = [res EXCEPT ![w].at = "done", ![w].matrix = M]
           /\ cache' = [cache EXCEPT !.mat = save_file(cache.mat, WorkerName(params, w), M)]
    /\ UNCHANGED <<pc, orig, params, keys, out, matVars>>

\* generate_keys returns when the three calls have returned
ParJoin ==
    /\ pc = "par"
    /\ \A w \in Workers : res[w].at = "done"
    /\ keys' = [w \in Workers |-> res[w].matrix]
    /\ pc' = "joined"
    /\ UNCHANGED <<orig, res, params, cache, out, matVars>>

NextPar ==
    \/ \E w \in Workers : ParCheck(w)
    \/ \E w \in Workers : ParLoad(w)
    \/ \E w \in Workers : ParSeed(w)
    \/ \E w \in Workers : ParPersist(w)
    \/ \E w \in Workers : ParDraw(w)
    \/ \E w \in Workers : ParStore(w)
    \/ ParJoin

SpecPar == InitPar /\ [][NextPar]_vars

\* the orders in which the three calls can run one after the other
WorkerOrders ==
    { o \in [1..3 -> Workers] : \A i, j \in 1..3 : o[i] = o[j] => i = j }

\* the cache and the matrices after the three calls ran in the order o, each
\* to its end, from the cache and with the CSPRNG values of the scenario
RECURSIVE Sequential(_, _, _)
Sequential(o, i, acc) ==
    IF i > 3 THEN acc
    ELSE LET w == o[i]
             q == WorkerRequest(params, w)
             r == get_or_generate_matrix_with_seed(acc.cache, q.prefix, q.code.n,
                      q.code.k, q.code.d, q.matrix, orig.regenerate,
                      orig.use_seed_mode, orig.fresh[w])
         IN  Sequential(o, i + 1,
                        [cache |-> r.cache,
                         keys  |-> [x \in Workers |-> IF x = w THEN r.matrix
                                                      ELSE acc.keys[x]]])

\* some sequential execution gives the matrices and the cache of the state
Serializable ==
    \E o \in WorkerOrders :
        \E seq \in {Sequential(o, 1, [cache |-> orig.cache,
                                       keys |-> [x \in Workers |->
                                                   WorkerRequest(params, x).matrix]])} :
            seq.keys = keys /\ seq.cache = cache

====
